---- MODULE Spec2Model ----
(***************************************************************************)
(* Model of tools/pdf2txt.py: main()'s post-extraction pipeline            *)
(* (argument resolution, the extraction engine's output, the XML parse,    *)
(* the Document/DocInfo preamble, the word/text reordering loop and the    *)
(* rewrite of the output file) and the metadata decoding helpers           *)
(* decode_helper() and decode().                                           *)
(*                                                                         *)
(* Bytes and code points are integers; byte strings and texts are          *)
(* sequences of them.  Elements are node identifiers: 0 is the root of the *)
(* engine's tree, 1..n the elements the engine emitted in document order,  *)
(* and the negative identifiers the elements main() synthesizes.           *)
(***************************************************************************)
EXTENDS Integers, Sequences, FiniteSets, TLC

VARIABLES
  pc,         \* position of main(): start, extract, parse, docinfo, reorder, write, done, failed
  A,          \* the parsed arguments that matter: output_type and outfile
  byteorder,  \* the platform's native byte order, used by the utf-16 codec
  tag,        \* tag[i]: tag of the i-th element the engine emitted
  out,        \* what outfp holds: well-formedness, children and texts of its elements
  raw,        \* what the engine left in outfp when extract_text returned
  info,       \* the document-info mapping extract_text returned
  kids,       \* the parsed tree in memory: children of each element
  pre,        \* the in-memory tree after root.insert, before the reordering loop
  text,       \* text of the DocInfo sub-elements in memory
  error,      \* the exception that ended main(), or "none"
  string,     \* argument of a stand-alone decode_helper call
  ret         \* its return value

vars == <<pc, A, byteorder, tag, out, raw, info, kids, pre, text, error, string, ret>>

-----------------------------------------------------------------------------
(* Bounds *)

\* Elements the engine emits under the full schema.
MaxNodes == 5
\* Elements the engine emits when it emits only page/textbox/textline trees.
MaxLine == 7
\* Elements the engine emits in the runs that vary metadata or arguments.
MetaNodes == 1
\* Length of the byte strings given to decode_helper on its own.
MaxLen == 3

-----------------------------------------------------------------------------
(* Sequences *)

RECURSIVE SeqsUpTo(_, _)
SeqsUpTo(S, n) ==
  IF n = 0 THEN {<<>>}
  ELSE LET shorter == SeqsUpTo(S, n - 1)
       IN  shorter \cup {Append(s, x) : s \in {t \in shorter : Len(t) = n - 1}, x \in S}

Range(s) == {s[i] : i \in 1..Len(s)}

\* list.remove(x): drops the first occurrence of x.
RECURSIVE Remove(_, _)
Remove(s, x) ==
  IF s = <<>> THEN <<>>
  ELSE IF Head(s) = x THEN Tail(s)
  ELSE <<Head(s)>> \o Remove(Tail(s), x)

RECURSIVE RemoveEach(_, _)
RemoveEach(s, xs) ==
  IF xs = <<>> THEN s ELSE RemoveEach(Remove(s, Head(xs)), Tail(xs))

-----------------------------------------------------------------------------
(* Codecs: bytes.decode(encoding) and str.encode("utf-8") *)

\* Result of a decode that raised UnicodeDecodeError.
DecodeError == <<-1>>

Cons(x, r) == IF r = DecodeError THEN DecodeError ELSE <<x>> \o r

IsCont(b) == b >= 128 /\ b <= 191

RECURSIVE Utf8Decode(_)
Utf8Decode(b) ==
  IF b = <<>> THEN <<>>
  ELSE LET b1 == b[1]
           n  == Len(b)
       IN
       IF b1 < 128 THEN Cons(b1, Utf8Decode(Tail(b)))
       ELSE IF b1 >= 194 /\ b1 <= 223 THEN
         IF n >= 2 /\ IsCont(b[2])
         THEN Cons((b1 - 192) * 64 + (b[2] - 128), Utf8Decode(SubSeq(b, 3, n)))
         ELSE DecodeError
       ELSE IF b1 >= 224 /\ b1 <= 239 THEN
         IF /\ n >= 3
            /\ IsCont(b[2])
            /\ IsCont(b[3])
            /\ (b1 = 224 => b[2] >= 160)
            /\ (b1 = 237 => b[2] <= 159)
         THEN Cons((b1 - 224) * 4096 + (b[2] - 128) * 64 + (b[3] - 128),
                   Utf8Decode(SubSeq(b, 4, n)))
         ELSE DecodeError
       ELSE IF b1 >= 240 /\ b1 <= 244 THEN
         IF /\ n >= 4
            /\ IsCont(b[2])
            /\ IsCont(b[3])
            /\ IsCont(b[4])
            /\ (b1 = 240 => b[2] >= 144)
            /\ (b1 = 244 => b[2] <= 143)
         THEN Cons((b1 - 240) * 262144 + (b[2] - 128) * 4096
                     + (b[3] - 128) * 64 + (b[4] - 128),
                   Utf8Decode(SubSeq(b, 5, n)))
         ELSE DecodeError
       ELSE DecodeError

\* utf-8-sig: an initial EF BB BF is dropped, the rest is utf-8.
Utf8SigDecode(b) ==
  IF Len(b) >= 3 /\ SubSeq(b, 1, 3) = <<239, 187, 191>>
  THEN Utf8Decode(SubSeq(b, 4, Len(b)))
  ELSE Utf8Decode(b)

Unit(b, i, order) ==
  IF order = "little" THEN b[i] + 256 * b[i + 1] ELSE 256 * b[i] + b[i + 1]

RECURSIVE Utf16Units(_, _)
Utf16Units(b, order) ==
  IF b = <<>> THEN <<>>
  ELSE IF Len(b) = 1 THEN DecodeError
  ELSE LET u == Unit(b, 1, order)
           n == Len(b)
       IN
       IF u >= 55296 /\ u <= 56319 THEN
         IF n >= 4 /\ Unit(b, 3, order) >= 56320 /\ Unit(b, 3, order) <= 57343
         THEN Cons(65536 + (u - 55296) * 1024 + (Unit(b, 3, order) - 56320),
                   Utf16Units(SubSeq(b, 5, n), order))
         ELSE DecodeError
       ELSE IF u >= 56320 /\ u <= 57343 THEN DecodeError
       ELSE Cons(u, Utf16Units(SubSeq(b, 3, n), order))

\* utf-16: a byte order mark selects the order and is dropped; without one
\* the platform's native order is used.
Utf16Decode(b, native) ==
  IF Len(b) >= 2 /\ b[1] = 255 /\ b[2] = 254
  THEN Utf16Units(SubSeq(b, 3, Len(b)), "little")
  ELSE IF Len(b) >= 2 /\ b[1] = 254 /\ b[2] = 255
  THEN Utf16Units(SubSeq(b, 3, Len(b)), "big")
  ELSE Utf16Units(b, native)

\* cp1252's mapping of bytes 0x80..0x9F; -1 marks the five undefined bytes.
Cp1252High ==
  << 8364,   -1, 8218,  402, 8222, 8230, 8224, 8225,
      710, 8240,  352, 8249,  338,   -1,  381,   -1,
       -1, 8216, 8217, 8220, 8221, 8226, 8211, 8212,
      732, 8482,  353, 8250,  339,   -1,  382,  376 >>

RECURSIVE Cp1252Decode(_)
Cp1252Decode(b) ==
  IF b = <<>> THEN <<>>
  ELSE LET c == IF b[1] >= 128 /\ b[1] <= 159 THEN Cp1252High[b[1] - 127] ELSE b[1]
       IN  IF c = -1 THEN DecodeError ELSE Cons(c, Cp1252Decode(Tail(b)))

RECURSIVE AsciiDecode(_)
AsciiDecode(b) ==
  IF b = <<>> THEN <<>>
  ELSE IF b[1] >= 128 THEN DecodeError
  ELSE Cons(b[1], AsciiDecode(Tail(b)))

\* string.decode(encoding)
Decode(b, encoding, native) ==
  CASE encoding = "utf-8"     -> Utf8Decode(b)
    [] encoding = "utf-8-sig" -> Utf8SigDecode(b)
    [] encoding = "utf-16"    -> Utf16Decode(b, native)
    [] encoding = "cp1252"    -> Cp1252Decode(b)
    [] encoding = "ascii"     -> AsciiDecode(b)

\* Result of an encode that raised UnicodeEncodeError.
EncodeError == <<-1>>

RECURSIVE Utf8Encode(_)
Utf8Encode(t) ==
  IF t = <<>> THEN <<>>
  ELSE LET c == t[1]
           r == Utf8Encode(Tail(t))
       IN
       IF r = EncodeError \/ (c >= 55296 /\ c <= 57343) THEN EncodeError
       ELSE IF c < 128 THEN <<c>> \o r
       ELSE IF c < 2048 THEN <<192 + (c \div 64), 128 + (c % 64)>> \o r
       ELSE IF c < 65536
         THEN <<224 + (c \div 4096), 128 + ((c \div 64) % 64), 128 + (c % 64)>> \o r
       ELSE <<240 + (c \div 262144), 128 + ((c \div 4096) % 64),
              128 + ((c \div 64) % 64), 128 + (c % 64)>> \o r

-----------------------------------------------------------------------------
(* decode_helper and decode *)

encodings_swapped == <<"utf-8", "utf-8-sig", "cp1252", "utf-16", "ascii">>

encodings == <<"utf-8", "utf-8-sig", "utf-16", "cp1252", "ascii">>

\* Python's None, as decode_helper returns it when the loop ends.
None == <<>>

\* The loop of decode_helper from the i-th candidate on.
RECURSIVE TryFrom(_, _, _)
TryFrom(i, b, native) ==
  IF i > Len(encodings) THEN None
  ELSE LET d == Decode(b, encodings[i], native)
       IN  IF d # DecodeError THEN <<d, encodings[i]>> ELSE TryFrom(i + 1, b, native)

decode_helper(b, native) == TryFrom(1, b, native)

\* Result of decode() when it raised.
Raised == <<-2>>

\* str(bytes, "utf-8") of the bytes str.encode("utf-8") gave
Reencode(t) ==
  LET e == Utf8Encode(t)
  IN  IF e = EncodeError THEN Raised
      ELSE IF Utf8Decode(e) = DecodeError THEN Raised
      ELSE Utf8Decode(e)

decode_lenient(b, native) ==
  LET r == decode_helper(b, native)
  IN  IF r = None THEN <<>> ELSE Reencode(r[1])

\* decode: ret[0] of a None raises TypeError
decode(b, native) ==
  LET r == decode_helper(b, native)
  IN  IF r = None THEN Raised ELSE Reencode(r[1])

-----------------------------------------------------------------------------
(* The document tree *)

Root == 0
DocumentNode == -1
DocInfoNode == -2

DocInfoFields_swapped == <<"Title", "Creator", "Producer", "CreationDate">>

\* The sub-elements of DocInfo, in the order main() creates them.
DocInfoFields == <<"Title", "Producer", "Creator", "CreationDate">>

FieldNode(i) == DocInfoNode - i

FieldNodes == {FieldNode(i) : i \in 1..Len(DocInfoFields)}

TagOf(x) ==
  IF x = Root THEN "pages"
  ELSE IF x = DocumentNode THEN "Document"
  ELSE IF x = DocInfoNode THEN "DocInfo"
  ELSE IF x < 0 THEN DocInfoFields[DocInfoNode - x]
  ELSE tag[x]

\* element.findall(t): the direct children tagged t, in order.
FindAll(k, x, t) == SelectSeq(k[x], LAMBDA c : TagOf(c) = t)

ReorderNode_textsfirst(k, x) ==
  LET words == FindAll(k, x, "word")
      texts == FindAll(k, x, "text")
      rest  == RemoveEach(RemoveEach(k[x], words), texts)
  IN  [k EXCEPT ![x] = rest \o texts \o words]

ReorderNode_dropword(k, x) ==
  LET words == FindAll(k, x, "word")
      texts == FindAll(k, x, "text")
      rest  == RemoveEach(RemoveEach(k[x], words), texts)
  IN  [k EXCEPT ![x] = rest \o (IF words = <<>> THEN <<>> ELSE Tail(words)) \o texts]

RECURSIVE EveryOther(_)
EveryOther(s) ==
  IF s = <<>> THEN <<>>
  ELSE IF Len(s) = 1 THEN s
  ELSE <<Head(s)>> \o EveryOther(Tail(Tail(s)))

ReorderNode_skipping(k, x) ==
  LET words == EveryOther(FindAll(k, x, "word"))
      k1    == [k EXCEPT ![x] = RemoveEach(@, words)]
      texts == EveryOther(FindAll(k1, x, "text"))
      k2    == [k1 EXCEPT ![x] = RemoveEach(@, texts)]
  IN  [k2 EXCEPT ![x] = @ \o words \o texts]

\* The body applied to page, figure and textline: remove the word children,
\* remove the text children, extend by the words, extend by the texts.
ReorderNode(k, x) ==
  LET words == FindAll(k, x, "word")
      k1    == [k EXCEPT ![x] = RemoveEach(@, words)]
      texts == FindAll(k1, x, "text")
      k2    == [k1 EXCEPT ![x] = RemoveEach(@, texts)]
      k3    == IF words # <<>> THEN [k2 EXCEPT ![x] = @ \o words] ELSE k2
  IN  IF texts # <<>> THEN [k3 EXCEPT ![x] = @ \o texts] ELSE k3

RECURSIVE ReorderEach(_, _)
ReorderEach(k, xs) ==
  IF xs = <<>> THEN k ELSE ReorderEach(ReorderNode(k, Head(xs)), Tail(xs))

\* for figure in figures
ReorderFigures(k, page) == ReorderEach(k, FindAll(k, page, "figure"))

\* for textbox in textboxes: for textline in textlines
RECURSIVE ReorderTextboxes(_, _)
ReorderTextboxes(k, boxes) ==
  IF boxes = <<>> THEN k
  ELSE ReorderTextboxes(ReorderEach(k, FindAll(k, Head(boxes), "textline")), Tail(boxes))

\* One iteration of "for page in root".
ReorderPage(k, page) ==
  LET k1 == ReorderNode(k, page)
      k2 == ReorderFigures(k1, page)
  IN  ReorderTextboxes(k2, FindAll(k2, page, "textbox"))

RECURSIVE ReorderPages(_, _)
ReorderPages(k, pages) ==
  IF pages = <<>> THEN k ELSE ReorderPages(ReorderPage(k, Head(pages)), Tail(pages))

\* The whole loop "for page in root": every child of the root, whatever its tag.
ReorderPass(k) == ReorderPages(k, k[Root])

-----------------------------------------------------------------------------
(* Arguments *)

Dash == <<"-">>

OUTPUT_TYPES ==
  << << <<".", "h", "t", "m">>, "html" >>,
     << <<".", "h", "t", "m", "l">>, "html" >>,
     << <<".", "x", "m", "l">>, "xml" >>,
     << <<".", "t", "a", "g">>, "tag" >> >>

\* str.endswith
EndsWith(s, suffix) ==
  Len(s) >= Len(suffix) /\ SubSeq(s, Len(s) - Len(suffix) + 1, Len(s)) = suffix

\* for override, alttype in OUTPUT_TYPES, from the i-th pair on
RECURSIVE Override(_, _, _)
Override(i, outfile, output_type) ==
  IF i > Len(OUTPUT_TYPES) THEN output_type
  ELSE Override(i + 1, outfile,
                IF EndsWith(outfile, OUTPUT_TYPES[i][1]) THEN OUTPUT_TYPES[i][2]
                ELSE output_type)

ResolveOutputType(a) ==
  IF a.output_type = "text" /\ a.outfile # Dash
  THEN [a EXCEPT !.output_type = Override(1, a.outfile, @)]
  ELSE a

OutputTypes == {"text", "html", "xml", "tag"}

OutFiles ==
  { Dash,
    <<"o", ".", "t", "x", "t">>,
    <<"o", ".", "h", "t", "m">>,
    <<"o", ".", "h", "t", "m", "l">>,
    <<"o", ".", "x", "m", "l">>,
    <<"o", ".", "t", "a", "g">> }

AllArgs == [output_type : OutputTypes, outfile : OutFiles]

\* -t xml -o o.xml
XmlArgs == {[output_type |-> "xml", outfile |-> <<"o", ".", "x", "m", "l">>]}

-----------------------------------------------------------------------------
(* What the extraction engine may produce *)

\* Parent tag, child tag.
Schema ==
  {<<"pages", "page">>, <<"pages", "layout">>}
    \cup ({"page", "figure"} \X {"word", "text", "figure", "textbox"})
    \cup ({"layout", "textline"} \X {"word", "text"})
    \cup ({"textbox"} \X {"textline", "word", "text"})
    \cup {<<"word", "text">>}

\* Pages whose textboxes hold textlines of words and texts.
LineSchema ==
  {<<"pages", "page">>, <<"page", "textbox">>, <<"page", "text">>,
   <<"textbox", "textline">>, <<"textline", "word">>, <<"textline", "text">>}

Tags == {"page", "layout", "figure", "textbox", "textline", "word", "text"}

Keys == {"Title", "Producer", "Creator", "CreationDate"}

Report == <<82, 101, 112, 111, 114, 116>>
Acme == <<65, 99, 109, 101>>
\* "Café".encode("cp1252")
CafeCp1252 == <<67, 97, 102, 233>>
Cafe == <<67, 97, 102, 233>>
\* A byte no candidate encoding decodes on its own.
Undecodable == <<129>>

MetaSamples == {Report, Acme, CafeCp1252, Undecodable}

MetaInfos == UNION {[S -> MetaSamples] : S \in SUBSET Keys}

TitleOnly == [k \in {"Title"} |-> Report]

TreeInfos == {TitleOnly}

ArgInfos == {TitleOnly, [k \in {"Title"} |-> Undecodable]}

ByteSamples == {0, 65, 129, 169, 195, 220, 233, 239, 187, 191, 254, 255}

ByteOrders == {"little", "big"}

\* The open elements of the file being written: the last child of the last child ...
RECURSIVE OpenPath(_, _)
OpenPath(k, x) ==
  {x} \cup (IF k[x] = <<>> THEN {} ELSE OpenPath(k, k[x][Len(k[x])]))

NoText == [x \in {} |-> <<>>]

EmptyFile == [wf |-> FALSE, kids |-> (Root :> <<>>), text |-> NoText]

-----------------------------------------------------------------------------
(* main() *)

Fail(e) ==
  /\ pc' = "failed"
  /\ error' = e

\* P.parse_args and the output type override.
Start(Args) ==
  /\ pc = "start"
  /\ \E a \in Args : A' = ResolveOutputType(a)
  /\ pc' = "extract"
  /\ UNCHANGED <<byteorder, tag, out, raw, info, kids, pre, text, error, string, ret>>

\* extract_text_to_fp writes one more element to outfp.
EmitElement(limit, schema) ==
  /\ pc = "extract"
  /\ Len(tag) < limit
  /\ \E p \in OpenPath(out.kids, Root), t \in Tags :
       /\ <<TagOf(p), t>> \in schema
       /\ tag' = Append(tag, t)
       /\ out' = [out EXCEPT !.kids =
                    [@ EXCEPT ![p] = Append(@, Len(tag) + 1)] @@ ((Len(tag) + 1) :> <<>>)]
  /\ UNCHANGED <<pc, A, byteorder, raw, info, kids, pre, text, error, string, ret>>

\* extract_text returns (outfp, res); main closes outfp.
EngineReturn(Infos) ==
  /\ pc = "extract"
  /\ \E i \in Infos, wf \in BOOLEAN :
       /\ info' = i
       /\ out' = [out EXCEPT !.wf = wf]
  /\ raw' = out'
  /\ pc' = "parse"
  /\ UNCHANGED <<A, byteorder, tag, kids, pre, text, error, string, ret>>

\* etree.parse(outfp.name); document.getroot()
Parse ==
  /\ pc = "parse"
  /\ IF A.outfile = Dash
     THEN Fail("FileNotFoundError") /\ UNCHANGED kids
     ELSE IF ~out.wf
     THEN Fail("ParseError") /\ UNCHANGED kids
     ELSE kids' = out.kids /\ pc' = "docinfo" /\ UNCHANGED error
  /\ UNCHANGED <<A, byteorder, tag, out, raw, info, pre, text, string, ret>>

FieldText_lenient(key) ==
  IF key \in DOMAIN info THEN decode_lenient(info[key], byteorder) ELSE <<>>

\* x.text = ''; if key in info: x.text = decode(info[key])
FieldText(key) ==
  IF key \in DOMAIN info THEN decode(info[key], byteorder) ELSE <<>>

\* Document, DocInfo and its sub-elements, and root.insert(0, elem1).
BuildDocInfo ==
  /\ pc = "docinfo"
  /\ IF \E i \in 1..Len(DocInfoFields) : FieldText(DocInfoFields[i]) = Raised
     THEN Fail("TypeError") /\ UNCHANGED <<kids, pre, text>>
     ELSE /\ text' = [x \in FieldNodes |-> FieldText(TagOf(x))]
          /\ kids' = [kids EXCEPT ![Root] = <<DocumentNode>> \o @]
                       @@ (DocumentNode :> <<DocInfoNode>>)
                       @@ (DocInfoNode :> [i \in 1..Len(DocInfoFields) |-> FieldNode(i)])
                       @@ [x \in FieldNodes |-> <<>>]
          /\ pre' = kids'
          /\ pc' = "reorder"
          /\ UNCHANGED error
  /\ UNCHANGED <<A, byteorder, tag, out, raw, info, string, ret>>

\* for page in root: ...
ReorderLoop ==
  /\ pc = "reorder"
  /\ kids' = ReorderPass(kids)
  /\ pc' = "write"
  /\ UNCHANGED <<A, byteorder, tag, out, raw, info, pre, text, error, string, ret>>

\* document.write(outfp.name, short_empty_elements=False)
Write ==
  /\ pc = "write"
  /\ out' = [wf |-> TRUE, kids |-> kids, text |-> text]
  /\ pc' = "done"
  /\ UNCHANGED <<A, byteorder, tag, raw, info, kids, pre, text, error, string, ret>>

\* A call of decode_helper on its own.
CallDecodeHelper ==
  /\ pc = "call"
  /\ ret' = decode_helper(string, byteorder)
  /\ pc' = "returned"
  /\ UNCHANGED <<A, byteorder, tag, out, raw, info, kids, pre, text, error, string>>

-----------------------------------------------------------------------------
(* Specifications *)

NoArgs == [output_type |-> "text", outfile |-> Dash]

InitMain ==
  /\ pc = "start"
  /\ A = NoArgs
  /\ tag = <<>>
  /\ out = EmptyFile
  /\ raw = EmptyFile
  /\ info = NoText
  /\ kids = (Root :> <<>>)
  /\ pre = (Root :> <<>>)
  /\ text = NoText
  /\ error = "none"
  /\ string = <<>>
  /\ ret = None

\* Documents of up to MaxNodes elements under the full schema.
Init == InitMain /\ byteorder = "little"

Next ==
  \/ Start(XmlArgs)
  \/ EmitElement(MaxNodes, Schema)
  \/ EngineReturn(TreeInfos)
  \/ Parse
  \/ BuildDocInfo
  \/ ReorderLoop
  \/ Write

Spec == Init /\ [][Next]_vars

\* Documents of up to MaxLine elements: pages of textboxes of textlines.
NextLine ==
  \/ Start(XmlArgs)
  \/ EmitElement(MaxLine, LineSchema)
  \/ EngineReturn(TreeInfos)
  \/ Parse
  \/ BuildDocInfo
  \/ ReorderLoop
  \/ Write

SpecLine == Init /\ [][NextLine]_vars

\* Every metadata mapping over the sample byte strings, on either platform.
InitMeta == InitMain /\ byteorder \in ByteOrders

NextMeta ==
  \/ Start(XmlArgs)
  \/ EmitElement(MetaNodes, Schema)
  \/ EngineReturn(MetaInfos)
  \/ Parse
  \/ BuildDocInfo
  \/ ReorderLoop
  \/ Write

SpecMeta == InitMeta /\ [][NextMeta]_vars

\* Every combination of output type and output file.
NextArgs ==
  \/ Start(AllArgs)
  \/ EmitElement(MetaNodes, Schema)
  \/ EngineReturn(ArgInfos)
  \/ Parse
  \/ BuildDocInfo
  \/ ReorderLoop
  \/ Write

SpecArgs == Init /\ [][NextArgs]_vars

\* decode_helper on every byte string of up to MaxLen sample bytes.
InitDecode ==
  /\ pc = "call"
  /\ A = NoArgs
  /\ byteorder \in ByteOrders
  /\ tag = <<>>
  /\ out = EmptyFile
  /\ raw = EmptyFile
  /\ info = NoText
  /\ kids = (Root :> <<>>)
  /\ pre = (Root :> <<>>)
  /\ text = NoText
  /\ error = "none"
  /\ string \in SeqsUpTo(ByteSamples, MaxLen)
  /\ ret = None

NextDecode == CallDecodeHelper

SpecDecode == InitDecode /\ [][NextDecode]_vars

-----------------------------------------------------------------------------
(* Vocabulary of the properties *)

\* The candidate encodings in their priority order.
CandidateOrder == <<"utf-8", "utf-8-sig", "utf-16", "cp1252", "ascii">>

Decodes(b, i) == Decode(b, CandidateOrder[i], byteorder) # DecodeError

Earliest(b, i) == Decodes(b, i) /\ \A j \in 1..(i - 1) : ~Decodes(b, j)

NotDecodable(b) == \A i \in 1..Len(CandidateOrder) : ~Decodes(b, i)

EarliestText(b) ==
  Decode(b, CandidateOrder[CHOOSE i \in 1..Len(CandidateOrder) : Earliest(b, i)], byteorder)

Returned == pc \in {"parse", "docinfo", "reorder", "write", "done", "failed"}

Inserted == pc \in {"reorder", "write", "done"}

Passed == pc \in {"write", "done"}

IsWordOrText(x) == TagOf(x) \in {"word", "text"}

Words(s) == SelectSeq(s, LAMBDA c : TagOf(c) = "word")

Texts(s) == SelectSeq(s, LAMBDA c : TagOf(c) = "text")

Others(s) == SelectSeq(s, LAMBDA c : ~IsWordOrText(c))

TagsOf(s) == [i \in 1..Len(s) |-> TagOf(s[i])]

WordsBeforeTexts(s) ==
  \A i, j \in 1..Len(s) : TagOf(s[i]) = "word" /\ TagOf(s[j]) = "text" => i < j

\* Words first, then texts, each group in the order it had before the pass.
Canonical(x) ==
  /\ WordsBeforeTexts(kids[x])
  /\ Words(kids[x]) = Words(pre[x])
  /\ Texts(kids[x]) = Texts(pre[x])

Children(k, S, t) == {c \in UNION {Range(k[x]) : x \in S} : TagOf(c) = t}

RootPages == Children(pre, {Root}, "page")

PageFigures == Children(pre, RootPages, "figure")

PageTextlines == Children(pre, Children(pre, RootPages, "textbox"), "textline")

\* The elements whose children the loop rearranges.
RootChildren == Range(pre[Root])

Walked ==
  RootChildren
    \cup Children(pre, RootChildren, "figure")
    \cup Children(pre, Children(pre, RootChildren, "textbox"), "textline")

Position(s, c) == CHOOSE i \in 1..Len(s) : s[i] = c

SameChildren(x) ==
  /\ Len(kids[x]) = Len(pre[x])
  /\ Range(kids[x]) = Range(pre[x])
  /\ Cardinality(Range(kids[x])) = Len(kids[x])

-----------------------------------------------------------------------------
(* Properties *)

\* C1: whenever some candidate encoding decodes the byte string, decode_helper
\* returns the text and the name of the earliest candidate, in the order utf-8,
\* utf-8-sig, utf-16, cp1252, ascii, that decodes it.
C1_EarliestEncoding ==
  pc = "returned" =>
    \A i \in 1..Len(CandidateOrder) :
      Earliest(string, i) =>
        ret = <<Decode(string, CandidateOrder[i], byteorder), CandidateOrder[i]>>

\* C1 witness: a later candidate is returned because every earlier one failed.
C1_Witness ==
  /\ pc = "returned"
  /\ ret # None
  /\ ret[2] = "cp1252"
  /\ ~Decodes(string, 1) /\ ~Decodes(string, 2) /\ ~Decodes(string, 3)

\* C2: a Title whose bytes are 43 61 66 E9 is rendered as the text "Café".
C2_CafeRoundTrip ==
  (Inserted /\ "Title" \in DOMAIN info /\ info["Title"] = CafeCp1252) =>
    text[FieldNode(1)] = Cafe

\* C3 as claimed: after the pass every page, figure and textline of the tree,
\* at any depth, has its words before its texts, each group in its old order.
C3_AnyDepth ==
  Passed =>
    \A x \in DOMAIN kids :
      TagOf(x) \in {"page", "figure", "textline"} => Canonical(x)

\* C3 amended: after the pass every page that is a child of the root, every
\* figure that is a child of such a page and every textline that is a child of
\* a textbox of such a page has its words before its texts, each group in its
\* old order.
C3_WalkedLevels ==
  Passed =>
    \A x \in RootPages \cup PageFigures \cup PageTextlines : Canonical(x)

\* C3 witness: a figure of a page had a text before a word and was reordered.
C3_Witness ==
  /\ pc = "done"
  /\ \E f \in PageFigures :
       /\ ~WordsBeforeTexts(pre[f])
       /\ kids[f] # pre[f]
       /\ Canonical(f)

\* C4: after a successful run the root's first child is Document, holding
\* exactly DocInfo, holding exactly Title, Producer, Creator, CreationDate in
\* that order; an absent key gives the empty text and a present key its decoded
\* text; {Producer: "Acme", Title: "Report"} gives Report, Acme, "", "".
C4_DocInfo ==
  pc = "done" =>
    /\ kids[Root][1] = DocumentNode
    /\ TagOf(DocumentNode) = "Document"
    /\ kids[DocumentNode] = <<DocInfoNode>>
    /\ TagOf(DocInfoNode) = "DocInfo"
    /\ TagsOf(kids[DocInfoNode]) = <<"Title", "Producer", "Creator", "CreationDate">>
    /\ \A i \in 1..4 :
         LET key == <<"Title", "Producer", "Creator", "CreationDate">>[i]
         IN  text[kids[DocInfoNode][i]] =
               IF key \in DOMAIN info THEN EarliestText(info[key]) ELSE <<>>
    /\ (info = ("Producer" :> Acme) @@ ("Title" :> Report) =>
          [i \in 1..4 |-> text[kids[DocInfoNode][i]]] = <<Report, Acme, <<>>, <<>>>>)
    /\ out.kids = kids
    /\ out.text = text

\* C4 witness: the run with {Producer: "Acme", Title: "Report"} succeeded.
C4_Witness ==
  /\ pc = "done"
  /\ info = ("Producer" :> Acme) @@ ("Title" :> Report)

\* C5: when a present metadata field is decoded by no candidate encoding, the
\* run fails: it never reaches the reordering or document.write, no field text
\* is set, and the output file keeps the raw engine output.
C5_FatalBeforeWrite ==
  (Returned /\ \E k \in DOMAIN info : NotDecodable(info[k])) =>
    /\ ~Inserted
    /\ text = NoText
    /\ out = raw
    /\ (pc = "failed" => error \in {"TypeError", "ParseError"})

\* C5 witness: decoding a field failed and ended the run.
C5_Witness ==
  /\ pc = "failed"
  /\ error = "TypeError"
  /\ \E k \in DOMAIN info : NotDecodable(info[k])

\* C6: with the resolved output type text or html, main never parses the file
\* as XML, never inserts Document, never rewrites the file and cannot fail with
\* a parse error.
C6_TextHtmlBypass ==
  (pc # "start" /\ A.output_type \in {"text", "html"}) =>
    /\ pc \notin {"docinfo", "reorder", "write", "done"}
    /\ error # "ParseError"
    /\ (Returned => out = raw)

\* C7: applying the reordering loop to the result of the reordering loop
\* changes no element's child order.
C7_Idempotent ==
  Passed => ReorderPass(kids) = kids

\* C7 witness: the first application did change the tree.
C7_Witness ==
  /\ pc = "done"
  /\ kids # pre

\* C8: a textline of a textbox of a page has its word and text children stably
\* partitioned: the words in their old order, then the texts in their old
\* order; [text, word, text, word] becomes the children of positions 2, 4, 1, 3.
C8_StablePartition ==
  Passed =>
    \A l \in PageTextlines :
      /\ SelectSeq(kids[l], IsWordOrText) = Words(pre[l]) \o Texts(pre[l])
      /\ (TagsOf(pre[l]) = <<"text", "word", "text", "word">> =>
            kids[l] = <<pre[l][2], pre[l][4], pre[l][1], pre[l][3]>>)

\* C8 witness: a textline with children [text, word, text, word] was processed.
C8_Witness ==
  /\ pc = "done"
  /\ \E l \in PageTextlines : TagsOf(pre[l]) = <<"text", "word", "text", "word">>

\* C9: the pass leaves the child sequence of every element that is not tagged
\* page, figure or textline as it was.
C9_OnlyPageFigureTextline ==
  Passed =>
    \A x \in DOMAIN kids :
      TagOf(x) \notin {"page", "figure", "textline"} => kids[x] = pre[x]

\* C10 as claimed: a processed container keeps its children, the children that
\* are neither word nor text keep their relative order and their positions
\* relative to the word and text children; a page without word and text
\* children is unchanged and its figures are still reordered.
C10_PositionsKept ==
  Passed =>
    \A x \in Walked :
      /\ SameChildren(x)
      /\ Others(kids[x]) = Others(pre[x])
      /\ \A o \in Range(Others(pre[x])), w \in Range(pre[x]) :
           IsWordOrText(w) =>
             ((Position(pre[x], o) < Position(pre[x], w))
                <=> (Position(kids[x], o) < Position(kids[x], w)))
      /\ (Words(pre[x]) \o Texts(pre[x]) = <<>> => kids[x] = pre[x])
      /\ (TagOf(x) = "figure" => Canonical(x))

\* C10 amended: a processed container keeps its children, the children that
\* are neither word nor text keep their relative order and end up before all
\* its word and text children; a page without word and text children is
\* unchanged and its figures are still reordered.
C10_OthersFirst ==
  Passed =>
    \A x \in Walked :
      /\ SameChildren(x)
      /\ Others(kids[x]) = Others(pre[x])
      /\ \A i, j \in 1..Len(kids[x]) :
           (~IsWordOrText(kids[x][i]) /\ IsWordOrText(kids[x][j])) => i < j
      /\ (Words(pre[x]) \o Texts(pre[x]) = <<>> => kids[x] = pre[x])
      /\ (TagOf(x) = "figure" => Canonical(x))

\* C10 witness: a page holding only a figure is unchanged while the figure,
\* which had a text and a word before another child, was reordered.
C10_Witness ==
  /\ pc = "done"
  /\ \E p \in RootPages :
       /\ Words(pre[p]) \o Texts(pre[p]) = <<>>
       /\ kids[p] = pre[p]
       /\ \E f \in Range(pre[p]) :
            /\ TagOf(f) = "figure"
            /\ kids[f] # pre[f]
            /\ \E i, j \in 1..Len(pre[f]) :
                 i < j /\ IsWordOrText(pre[f][i]) /\ ~IsWordOrText(pre[f][j])

====
